---- MODULE Spec2Model ----
(***************************************************************************)
(* Model of sawtooth_validator/journal/journal.py: the Journal object,     *)
(* which owns the batch queue, the block queue and a one-worker thread     *)
(* pool, builds the BlockPublisher and the ChainController on start(),     *)
(* tears them down on stop(), and hands incoming blocks and batches to     *)
(* them through the two queues.                                            *)
(*                                                                         *)
(* One lifecycle thread calls start() and stop(); several caller threads   *)
(* call on_block_received() and on_batch_received(); the collaborators and *)
(* the pool worker run on their own threads.                               *)
(***************************************************************************)
EXTENDS Integers, Sequences, FiniteSets

\* ---------------------------------------------------------------- bounds
NumCallers   == 2   \* threads calling on_block_received / on_batch_received
MaxCalls     == 2   \* ingestion calls made in one behaviour, all callers
MaxLifeCalls == 3   \* start() / stop() calls made in one behaviour
MaxFailures  == 1   \* constructor / observer failures in one behaviour

\* ------------------------------------------------------ program constants
PoolWorkersTwo == 1 + 1   \* a pool built with a second worker
PoolWorkers == 1    \* ThreadPoolExecutor(1)
None        == 0    \* Python's None for the two collaborator handles

Callers   == 1..NumCallers
Observers == {"obsA", "obsB"}

\* The observer lists a Journal can be constructed with.
ObserverLists == {<<>>, <<"obsB", "obsA">>}

VARIABLES
    block_publisher,   \* self._block_publisher: None or the instance's id
    chain_controller,  \* self._chain_controller: None or the instance's id
    batch_queue,       \* self._batch_queue
    block_queue,       \* self._block_queue
    batch_obs,         \* self._batch_obs
    pool,              \* self._executor_threadpool
    publishers,        \* every BlockPublisher built so far, by id
    controllers,       \* every ChainController built so far, by id
    life,              \* the lifecycle thread: its position in start()/stop()
    last,              \* the lifecycle calls that have finished
    callers,           \* the ingestion threads: position, item, observer index
    ncalls,            \* ingestion calls made so far
    sent,              \* the ingestion calls in the order they were made
    got,               \* items in the order each collaborator dequeued them
    notify_log,        \* notify_batch_pending invocations, in order
    failures,          \* failures injected so far, by kind
    objs,              \* which queue and executor objects the Journal holds
    root               \* how the last get_current_root() call ended

vars == <<block_publisher, chain_controller, batch_queue, block_queue,
          batch_obs, pool, publishers, controllers, life, last, callers,
          ncalls, sent, got, notify_log, failures, objs, root>>

journal_vars == <<block_publisher, chain_controller, batch_queue, block_queue,
                  batch_obs, pool, publishers, controllers>>
life_vars    == <<life, last>>
ingest_vars  == <<callers, ncalls, sent, notify_log>>
fixed_vars   == <<objs, root>>

\* ------------------------------------------------------------ queue.Queue
\* A put at the wrong end of the queue.
QueuePutFront(q, x) == <<x>> \o q

\* A put without the mutex: it overwrites the slot of the put before it.
QueuePutRacy(q, x) ==
    IF q = <<>> THEN <<x>> ELSE [q EXCEPT ![Len(q)] = x]

\* Queue.put: appends under the queue's mutex.
QueuePut(q, x) == Append(q, x)

\* Queue.get: the item at the head.
QueueFront(q) == Head(q)

\* What is left after Queue.get.
QueuePop(q) == Tail(q)

\* The part of the Journal that only start() and stop() change, as the
\* lifecycle thread sees it when it enters a call.
Snapshot ==
    [bp |-> block_publisher, cc |-> chain_controller,
     shutdown |-> pool.shutdown, publishers |-> publishers,
     controllers |-> controllers]

\* A caller thread is between two calls: it has made none yet, or its last
\* call has returned, or its last call has ended with an exception.
Free(c) == c.pc \in {"idle", "returned", "raised"}

\* -------------------------------------------------------------- __init__
IdleCaller == [pc |-> "idle", item |-> <<0, 0>>, i |-> 0]
NoCall     == [op |-> "none", result |-> "none"]
NoRoot     == [absent |-> FALSE, outcome |-> "none"]

\* The failures injected so far, of both kinds.
Failures == failures.ctor + failures.observer

Init ==
    /\ block_publisher = None
    /\ chain_controller = None
    /\ batch_queue = <<>>
    /\ block_queue = <<>>
    /\ batch_obs \in ObserverLists
    /\ pool = [shutdown |-> FALSE, pending |-> 0, running |-> 0,
               rejected |-> 0]
    /\ publishers = <<>>
    /\ controllers = <<>>
    /\ life = [pc |-> "idle", op |-> "none", entry |-> Snapshot]
    /\ last = [cur |-> NoCall, prev |-> NoCall, calls |-> 0, starts |-> 0]
    /\ callers = [t \in Callers |-> IdleCaller]
    /\ ncalls = 0
    /\ sent = [block |-> <<>>, batch |-> <<>>]
    /\ got = [block |-> <<>>, batch |-> <<>>]
    /\ notify_log = <<>>
    /\ failures = [ctor |-> 0, observer |-> 0]
    /\ objs = [batch_queue |-> 1, pool |-> 2, block_queue |-> 3, built |-> 3]
    /\ root = NoRoot

\* No start() has been called yet.
NeverStarted == last.starts = 0 /\ life.op # "start"

\* --------------------------------------------------- on_block_received
\* A caller thread enters on_block_received(block) with a fresh block.
BlockCall(t) ==
    /\ Free(callers[t])
    /\ ncalls < MaxCalls
    /\ ncalls' = ncalls + 1
    /\ callers' = [callers EXCEPT ![t] =
                     [pc |-> "block_put", item |-> <<t, ncalls + 1>>, i |-> 0]]
    /\ sent' = [sent EXCEPT !.block =
                  Append(@, [item |-> <<t, ncalls + 1>>,
                             early |-> NeverStarted])]
    /\ UNCHANGED <<journal_vars, life_vars, got, notify_log, failures>>
    /\ UNCHANGED fixed_vars

\* self._block_queue.put(block), then the call returns.
on_block_received(t) ==
    /\ callers[t].pc = "block_put"
    /\ block_queue' = QueuePut(block_queue, callers[t].item)
    /\ callers' = [callers EXCEPT ![t] = [@ EXCEPT !.pc = "returned"]]
    /\ UNCHANGED <<block_publisher, chain_controller, batch_queue, batch_obs,
                   pool, publishers, controllers, life_vars, ncalls, sent,
                   got, notify_log, failures>>
    /\ UNCHANGED fixed_vars

\* --------------------------------------------------- on_batch_received
\* A caller thread enters on_batch_received(batch) with a fresh batch.
BatchCall(t) ==
    /\ Free(callers[t])
    /\ ncalls < MaxCalls
    /\ ncalls' = ncalls + 1
    /\ callers' = [callers EXCEPT ![t] =
                     [pc |-> "batch_put", item |-> <<t, ncalls + 1>>, i |-> 0]]
    /\ sent' = [sent EXCEPT !.batch =
                  Append(@, [item |-> <<t, ncalls + 1>>,
                             early |-> NeverStarted])]
    /\ UNCHANGED <<journal_vars, life_vars, got, notify_log, failures>>
    /\ UNCHANGED fixed_vars

\* A loop that stops one observer short.
AfterObserverShort(i) ==
    IF i + 1 >= Len(batch_obs) THEN "returned" ELSE "notify"

\* Where the caller is after it has dealt with observer number i.
AfterObserver(i) ==
    IF i >= Len(batch_obs) THEN "returned" ELSE "notify"

\* self._batch_queue.put(batch); the loop over self._batch_obs follows.
on_batch_received(t) ==
    /\ callers[t].pc = "batch_put"
    /\ batch_queue' = QueuePut(batch_queue, callers[t].item)
    /\ callers' = [callers EXCEPT ![t] =
                     [@ EXCEPT !.pc = AfterObserver(0), !.i = 1]]
    /\ UNCHANGED <<block_publisher, chain_controller, block_queue, batch_obs,
                   pool, publishers, controllers, life_vars, ncalls, sent,
                   got, notify_log, failures>>
    /\ UNCHANGED fixed_vars

\* A loop that takes the batch back out of the queue when an observer raises.
NotifyObserverRollback(t) ==
    /\ callers[t].pc = "notify"
    /\ LET i == callers[t].i
           entry == [obs |-> batch_obs[i], batch |-> callers[t].item]
       IN  /\ notify_log' = Append(notify_log, entry)
           /\ \/ /\ callers' = [callers EXCEPT ![t] =
                        [@ EXCEPT !.pc = AfterObserver(i), !.i = i + 1]]
                 /\ UNCHANGED <<failures, batch_queue>>
              \/ /\ Failures < MaxFailures
                 /\ failures' = [failures EXCEPT !.observer = @ + 1]
                 /\ batch_queue' = SelectSeq(batch_queue,
                                       LAMBDA x : x # callers[t].item)
                 /\ callers' = [callers EXCEPT ![t] =
                        [@ EXCEPT !.pc = "raised"]]
    /\ UNCHANGED <<block_publisher, chain_controller, block_queue, batch_obs,
                   pool, publishers, controllers, life_vars, ncalls, sent,
                   got, fixed_vars>>

\* One turn of the loop: observer.notify_batch_pending(batch).  The observer
\* either returns, and the loop goes on, or raises, and the exception leaves
\* on_batch_received.
NotifyObserver(t) ==
    /\ callers[t].pc = "notify"
    /\ LET i == callers[t].i
           entry == [obs |-> batch_obs[i], batch |-> callers[t].item]
       IN  /\ notify_log' = Append(notify_log, entry)
           /\ \/ /\ callers' = [callers EXCEPT ![t] =
                        [@ EXCEPT !.pc = AfterObserver(i), !.i = i + 1]]
                 /\ UNCHANGED failures
              \/ /\ Failures < MaxFailures
                 /\ failures' = [failures EXCEPT !.observer = @ + 1]
                 /\ callers' = [callers EXCEPT ![t] =
                        [@ EXCEPT !.pc = "raised"]]
    /\ UNCHANGED <<journal_vars, life_vars, ncalls, sent, got>>
    /\ UNCHANGED fixed_vars

\* ------------------------------------------------- ThreadPoolExecutor(1)
\* Executor.submit: refused with RuntimeError once the pool is shut down,
\* queued otherwise.
PoolSubmit(p) ==
    IF p.shutdown THEN [p EXCEPT !.rejected = @ + 1]
                  ELSE [p EXCEPT !.pending = @ + 1]

\* Executor.shutdown: no new task is accepted from here on.
PoolShutdown(p) == [p EXCEPT !.shutdown = TRUE]

\* shutdown(wait=True) returns when the worker has run every queued task.
PoolDrained(p) == p.pending = 0 /\ p.running = 0

\* A free worker takes the next queued task.
PoolRun ==
    /\ pool.pending > 0
    /\ pool.running < PoolWorkers
    /\ pool' = [pool EXCEPT !.pending = @ - 1, !.running = @ + 1]
    /\ UNCHANGED <<block_publisher, chain_controller, batch_queue,
                   block_queue, batch_obs, publishers, controllers,
                   life_vars, ingest_vars, got, failures>>
    /\ UNCHANGED fixed_vars

\* A running task finishes.
PoolFinish ==
    /\ pool.running > 0
    /\ pool' = [pool EXCEPT !.running = @ - 1]
    /\ UNCHANGED <<block_publisher, chain_controller, batch_queue,
                   block_queue, batch_obs, publishers, controllers,
                   life_vars, ingest_vars, got, failures>>
    /\ UNCHANGED fixed_vars

\* ------------------------------------------------------- collaborators
\* A BlockPublisher or ChainController as its constructor leaves it, with
\* the queue and the executor it was passed.
NewCollaborator(queue, executor) ==
    [starts |-> 0, stops |-> 0, running |-> FALSE,
     queue |-> queue, executor |-> executor]

\* collaborator.start(): its background activity runs.
CollabStart(c) == [c EXCEPT !.starts = @ + 1, !.running = TRUE]

\* collaborator.stop(): its background activity ends.
CollabStop(c) == [c EXCEPT !.stops = @ + 1, !.running = FALSE]

\* The running BlockPublisher takes the next batch off the batch queue.
PublisherConsume ==
    /\ batch_queue # <<>>
    /\ \E id \in DOMAIN publishers :
          /\ publishers[id].running
          /\ got' = [got EXCEPT !.batch =
                       Append(@, [item |-> QueueFront(batch_queue),
                                  by |-> id])]
    /\ batch_queue' = QueuePop(batch_queue)
    /\ UNCHANGED <<block_publisher, chain_controller, block_queue, batch_obs,
                   pool, publishers, controllers, life_vars, ingest_vars,
                   failures>>
    /\ UNCHANGED fixed_vars

\* The running ChainController takes the next block off the block queue and
\* submits its validation to the executor it was given.
ControllerConsume ==
    /\ block_queue # <<>>
    /\ \E id \in DOMAIN controllers :
          /\ controllers[id].running
          /\ got' = [got EXCEPT !.block =
                       Append(@, [item |-> QueueFront(block_queue),
                                  by |-> id])]
    /\ block_queue' = QueuePop(block_queue)
    /\ pool' = PoolSubmit(pool)
    /\ UNCHANGED <<block_publisher, chain_controller, batch_queue, batch_obs,
                   publishers, controllers, life_vars, ingest_vars, failures>>
    /\ UNCHANGED fixed_vars

\* ------------------------------------------------------ start() / stop()
\* The lifecycle thread enters a call.
Enter(op, pc) ==
    /\ life.pc = "idle"
    /\ last.calls < MaxLifeCalls
    /\ life' = [pc |-> pc, op |-> op, entry |-> Snapshot]

\* The lifecycle thread goes on to the next statement of the call.
Goto(pc) == life' = [life EXCEPT !.pc = pc]

\* The call ends, by returning ("ok") or with an exception ("raised").
Leave(result) ==
    /\ life' = [life EXCEPT !.pc = "idle"]
    /\ last' = [cur |-> [op |-> life.op, result |-> result],
                prev |-> last.cur,
                calls |-> last.calls + 1,
                starts |-> last.starts + (IF life.op = "start" THEN 1 ELSE 0)]

\* A start() that builds the collaborators on every call.
NeedsInitAlways == TRUE

\* start(), line 171: the guard on the two handles.
NeedsInit == block_publisher = None /\ chain_controller = None

start ==
    /\ Enter("start", IF NeedsInit THEN "init_bp" ELSE "bp_start")
    /\ UNCHANGED <<journal_vars, last, ingest_vars, got, failures>>
    /\ UNCHANGED fixed_vars

\* An _init_subprocesses that hands out the BlockPublisher it built before.
InitPublisherReuse ==
    /\ life.pc = "init_bp"
    /\ IF publishers = <<>>
       THEN /\ publishers' = Append(publishers,
                                     NewCollaborator(objs.batch_queue, None))
            /\ block_publisher' = 1
       ELSE /\ publishers' = publishers
            /\ block_publisher' = Len(publishers)
    /\ Goto("init_cc")
    /\ UNCHANGED <<chain_controller, batch_queue, block_queue, batch_obs,
                   pool, controllers, last, ingest_vars, got, failures>>
    /\ UNCHANGED fixed_vars

\* _init_subprocesses, first half: BlockPublisher(...), which may raise.
InitPublisher ==
    /\ life.pc = "init_bp"
    /\ \/ /\ publishers' = Append(publishers,
                                   NewCollaborator(objs.batch_queue, None))
          /\ block_publisher' = Len(publishers) + 1
          /\ Goto("init_cc")
          /\ UNCHANGED <<last, failures>>
       \/ /\ Failures < MaxFailures
          /\ failures' = [failures EXCEPT !.ctor = @ + 1]
          /\ Leave("raised")
          /\ UNCHANGED <<publishers, block_publisher>>
    /\ UNCHANGED <<chain_controller, batch_queue, block_queue, batch_obs,
                   pool, controllers, ingest_vars, got>>
    /\ UNCHANGED fixed_vars

\* An _init_subprocesses that builds a new executor for each ChainController.
InitControllerFreshPool ==
    /\ life.pc = "init_cc"
    /\ objs' = [objs EXCEPT !.pool = objs.built + 1, !.built = @ + 1]
    /\ pool' = [shutdown |-> FALSE, pending |-> 0, running |-> 0,
                rejected |-> pool.rejected]
    /\ controllers' = Append(controllers,
                             NewCollaborator(objs.block_queue,
                                             objs.built + 1))
    /\ chain_controller' = Len(controllers) + 1
    /\ Goto("bp_start")
    /\ UNCHANGED <<block_publisher, batch_queue, block_queue, batch_obs,
                   publishers, last, ingest_vars, got, failures, root>>

\* _init_subprocesses, second half: ChainController(...), which may raise.
InitController ==
    /\ life.pc = "init_cc"
    /\ \/ /\ controllers' = Append(controllers,
                                    NewCollaborator(objs.block_queue,
                                                    objs.pool))
          /\ chain_controller' = Len(controllers) + 1
          /\ Goto("bp_start")
          /\ UNCHANGED <<last, failures>>
       \/ /\ Failures < MaxFailures
          /\ failures' = [failures EXCEPT !.ctor = @ + 1]
          /\ Leave("raised")
          /\ UNCHANGED <<controllers, chain_controller>>
    /\ UNCHANGED <<block_publisher, batch_queue, block_queue, batch_obs,
                   pool, publishers, ingest_vars, got>>
    /\ UNCHANGED fixed_vars

\* start(), line 174: self._block_publisher.start().
PublisherStart ==
    /\ life.pc = "bp_start"
    /\ IF block_publisher = None
       THEN /\ Leave("raised")
            /\ UNCHANGED publishers
       ELSE /\ publishers' = [publishers EXCEPT ![block_publisher] =
                                 CollabStart(@)]
            /\ Goto("cc_start")
            /\ UNCHANGED last
    /\ UNCHANGED <<block_publisher, chain_controller, batch_queue,
                   block_queue, batch_obs, pool, controllers, ingest_vars,
                   got, failures>>
    /\ UNCHANGED fixed_vars

\* start(), line 175: self._chain_controller.start().
ControllerStart ==
    /\ life.pc = "cc_start"
    /\ IF chain_controller = None
       THEN /\ Leave("raised")
            /\ UNCHANGED controllers
       ELSE /\ controllers' = [controllers EXCEPT ![chain_controller] =
                                  CollabStart(@)]
            /\ Leave("ok")
    /\ UNCHANGED <<block_publisher, chain_controller, batch_queue,
                   block_queue, batch_obs, pool, publishers, ingest_vars,
                   got, failures>>
    /\ UNCHANGED fixed_vars

\* A stop() that leaves the executor alone.
stopNoShutdown ==
    /\ Enter("stop", "stop_wait")
    /\ UNCHANGED <<journal_vars, last, ingest_vars, got, failures,
                   fixed_vars>>

\* stop(), line 180: self._executor_threadpool.shutdown(wait=True), the call.
stop ==
    /\ Enter("stop", "stop_wait")
    /\ pool' = PoolShutdown(pool)
    /\ UNCHANGED <<block_publisher, chain_controller, batch_queue,
                   block_queue, batch_obs, publishers, controllers, last,
                   ingest_vars, got, failures>>
    /\ UNCHANGED fixed_vars

\* A shutdown(wait=False): stop() goes on while tasks are queued or running.
StopWaitNoWait ==
    /\ life.pc = "stop_wait"
    /\ Goto("stop_bp")
    /\ UNCHANGED <<journal_vars, last, ingest_vars, got, failures,
                   fixed_vars>>

\* stop(), line 180: shutdown(wait=True) returns once the pool is drained.
StopWait ==
    /\ life.pc = "stop_wait"
    /\ PoolDrained(pool)
    /\ Goto("stop_bp")
    /\ UNCHANGED <<journal_vars, last, ingest_vars, got, failures>>
    /\ UNCHANGED fixed_vars

\* A stop() that drops the BlockPublisher handle without stopping it.
StopPublisherDropOnly ==
    /\ life.pc = "stop_bp"
    /\ block_publisher' = None
    /\ Goto("stop_cc")
    /\ UNCHANGED <<chain_controller, batch_queue, block_queue, batch_obs,
                   pool, publishers, controllers, last, ingest_vars, got,
                   failures, fixed_vars>>

\* A stop() that empties the batch queue along with the BlockPublisher.
StopPublisherDrain ==
    /\ life.pc = "stop_bp"
    /\ IF block_publisher # None
       THEN /\ publishers' = [publishers EXCEPT ![block_publisher] =
                                 CollabStop(@)]
            /\ block_publisher' = None
       ELSE UNCHANGED <<publishers, block_publisher>>
    /\ batch_queue' = <<>>
    /\ Goto("stop_cc")
    /\ UNCHANGED <<chain_controller, block_queue, batch_obs,
                   pool, controllers, last, ingest_vars, got, failures>>
    /\ UNCHANGED fixed_vars

\* stop(), lines 182-184: stop the BlockPublisher and drop the handle.
StopPublisher ==
    /\ life.pc = "stop_bp"
    /\ IF block_publisher # None
       THEN /\ publishers' = [publishers EXCEPT ![block_publisher] =
                                 CollabStop(@)]
            /\ block_publisher' = None
       ELSE UNCHANGED <<publishers, block_publisher>>
    /\ Goto("stop_cc")
    /\ UNCHANGED <<chain_controller, batch_queue, block_queue, batch_obs,
                   pool, controllers, last, ingest_vars, got, failures>>
    /\ UNCHANGED fixed_vars

\* A stop() that stops the ChainController and keeps its handle.
StopControllerKeepHandle ==
    /\ life.pc = "stop_cc"
    /\ IF chain_controller # None
       THEN controllers' = [controllers EXCEPT ![chain_controller] =
                              CollabStop(@)]
       ELSE UNCHANGED controllers
    /\ Leave("ok")
    /\ UNCHANGED <<block_publisher, chain_controller, batch_queue,
                   block_queue, batch_obs, pool, publishers, ingest_vars,
                   got, failures>>
    /\ UNCHANGED fixed_vars

\* stop(), lines 186-188: stop the ChainController and drop the handle.
StopController ==
    /\ life.pc = "stop_cc"
    /\ IF chain_controller # None
       THEN /\ controllers' = [controllers EXCEPT ![chain_controller] =
                                  CollabStop(@)]
            /\ chain_controller' = None
       ELSE UNCHANGED <<controllers, chain_controller>>
    /\ Leave("ok")
    /\ UNCHANGED <<block_publisher, batch_queue, block_queue, batch_obs,
                   pool, publishers, ingest_vars, got, failures>>
    /\ UNCHANGED fixed_vars

\* ---------------------------------------------------- get_current_root
\* get_current_root(), line 165: self._chain_controller.chain_head
\* .state_root_hash.  With no ChainController the attribute lookup on None
\* raises AttributeError; otherwise the chain head's state root is returned.
get_current_root ==
    /\ root' = IF chain_controller = None
               THEN [absent |-> TRUE, outcome |-> "AttributeError"]
               ELSE [absent |-> FALSE, outcome |-> "state_root_hash"]
    /\ UNCHANGED <<journal_vars, life_vars, ingest_vars, got, failures,
                   objs>>

\* ------------------------------------------------------- specification
Next ==
    \/ \E t \in Callers : BlockCall(t)
    \/ \E t \in Callers : on_block_received(t)
    \/ \E t \in Callers : BatchCall(t)
    \/ \E t \in Callers : on_batch_received(t)
    \/ \E t \in Callers : NotifyObserver(t)
    \/ PublisherConsume
    \/ ControllerConsume
    \/ PoolRun
    \/ PoolFinish
    \/ start
    \/ InitPublisher
    \/ InitController
    \/ PublisherStart
    \/ ControllerStart
    \/ stop
    \/ StopWait
    \/ StopPublisher
    \/ StopController

Spec == Init /\ [][Next]_vars

\* The lifecycle thread and a thread that reads the current root.
NextRoot ==
    \/ get_current_root
    \/ start
    \/ InitPublisher
    \/ InitController
    \/ PublisherStart
    \/ ControllerStart
    \/ stop
    \/ StopWait
    \/ StopPublisher
    \/ StopController

SpecRoot == Init /\ [][NextRoot]_vars

\* ------------------------------------------------------------- helpers
\* The items of a sequence of records, in order.
Items(seq) == [k \in DOMAIN seq |-> seq[k].item]

\* The items of caller t in a sequence of items, in order.
Of(t, seq) == SelectSeq(seq, LAMBDA x : x[1] = t)

\* The elements of a sequence.
Range(seq) == {seq[k] : k \in DOMAIN seq}

\* A sequence without its last element.
Front(seq) == SubSeq(seq, 1, Len(seq) - 1)

\* What the consumer of a queue has seen or can still see: the items it has
\* dequeued, followed by the items waiting in the queue.
VisibleBlocks  == Items(got.block) \o block_queue
VisibleBatches == Items(got.batch) \o batch_queue

\* The items caller t has passed to put(), in the order of its calls: all
\* the calls it made, less the one whose put() is still to come.
PutBy(t, calls, pc) ==
    IF callers[t].pc = pc THEN Front(Of(t, Items(calls)))
                          ELSE Of(t, Items(calls))

\* C1: each queue hands a caller's items to its consumer in the order the
\* caller's ingestion calls were made, none missing and none repeated: the
\* items dequeued so far followed by the items still queued are the caller's
\* calls in call order, for blocks and for batches alike.
C1_FifoPerCaller ==
    \A t \in Callers :
        /\ Of(t, VisibleBlocks) = PutBy(t, sent.block, "block_put")
        /\ Of(t, VisibleBatches) = PutBy(t, sent.batch, "batch_put")

\* Two blocks one caller passed in before the first start() have both been
\* dequeued by the ChainController, in the order of the calls.
C1_Witness ==
    /\ Len(got.block) = 2
    /\ Len(sent.block) = 2
    /\ \A k \in 1..2 : sent.block[k].early /\ sent.block[k].item[1] = 1
    /\ Items(got.block) = Items(sent.block)

\* C2: when on_batch_received(b) returns, notify_batch_pending(b) has been
\* invoked on every registered observer exactly once, in registration order.
C2_AllObserversNotifiedInOrder ==
    \A t \in Callers :
        (callers[t].pc = "returned" /\ callers[t].i > 0) =>
            SelectSeq(notify_log, LAMBDA e : e.batch = callers[t].item)
              = [k \in 1..Len(batch_obs) |->
                   [obs |-> batch_obs[k], batch |-> callers[t].item]]

\* on_batch_received has returned on a Journal with two observers.
C2_Witness ==
    \E t \in Callers :
        /\ callers[t].pc = "returned"
        /\ callers[t].i > 0
        /\ Len(batch_obs) = 2
        /\ Len(notify_log) >= 2

\* C3: once every on_block_received call made by the caller threads has
\* returned, the blocks visible to the consumer of the block queue are
\* exactly the blocks passed in, each one once.
C3_NoBlockLostOrDuplicated ==
    (\A t \in Callers : callers[t].pc # "block_put") =>
        /\ Len(VisibleBlocks) = Len(sent.block)
        /\ Range(VisibleBlocks) = Range(Items(sent.block))
        /\ Cardinality(Range(VisibleBlocks)) = Len(VisibleBlocks)

\* Two on_block_received calls by two threads overlapped (the call made
\* first put its block second) and both have returned.
C3_Witness ==
    /\ \A t \in Callers : callers[t].pc # "block_put"
    /\ Len(sent.block) = 2
    /\ sent.block[1].item[1] # sent.block[2].item[1]
    /\ VisibleBlocks = <<sent.block[2].item, sent.block[1].item>>

\* ------------------------------------------------- lifecycle claims
\* The lifecycle thread is between calls and its last call was op, which
\* returned normally.
Returned(op) ==
    /\ life.pc = "idle"
    /\ last.cur = [op |-> op, result |-> "ok"]

\* The call before the last one was op, and it returned normally.
Before(op) == last.prev = [op |-> op, result |-> "ok"]

\* Some collaborator's background activity is running.
AnyRunning ==
    \/ \E id \in DOMAIN publishers : publishers[id].running
    \/ \E id \in DOMAIN controllers : controllers[id].running

\* C4: a start() that follows a start(), with no stop() in between, builds
\* no collaborator: the number of BlockPublisher and of ChainController
\* constructions is what it was when the second start() was entered, and
\* the handles still refer to the pair the first start() built.
C4_SecondStartBuildsNothing ==
    (Returned("start") /\ Before("start")) =>
        /\ Len(publishers) = Len(life.entry.publishers)
        /\ Len(controllers) = Len(life.entry.controllers)
        /\ block_publisher = life.entry.bp
        /\ chain_controller = life.entry.cc
        /\ block_publisher # None
        /\ chain_controller # None

\* start() has returned twice in a row; one pair has been built.
C4_Witness ==
    /\ Returned("start")
    /\ Before("start")
    /\ Len(publishers) = 1
    /\ Len(controllers) = 1

\* C5: a start() entered while both collaborators exist and run leaves the
\* Journal and its collaborators as it found them.
C5_StartWhileRunningIsNoOp ==
    (/\ Returned("start")
     /\ life.entry.bp # None
     /\ life.entry.cc # None
     /\ life.entry.publishers[life.entry.bp].running
     /\ life.entry.controllers[life.entry.cc].running)
        => Snapshot = life.entry

\* C6: a stop() that follows a stop() returns normally and leaves the
\* Journal as the first stop() left it: both handles absent, no collaborator
\* running, nothing else changed.
C6_SecondStopChangesNothing ==
    (life.pc = "idle" /\ last.cur.op = "stop" /\ last.prev.op = "stop") =>
        /\ last.cur.result = "ok"
        /\ Snapshot = life.entry
        /\ block_publisher = None
        /\ chain_controller = None
        /\ ~AnyRunning

\* stop() has returned twice in a row after a start() that had set both
\* collaborators running.
C6_Witness ==
    /\ Returned("stop")
    /\ Before("stop")
    /\ Len(publishers) = 1
    /\ Len(controllers) = 1
    /\ publishers[1].stops = 1
    /\ controllers[1].stops = 1

\* C7: a stop() made before any start() leaves the Journal as __init__
\* built it: handles absent and the executor still accepting tasks.
C7_StopBeforeStartIsNoOp ==
    (Returned("stop") /\ NeverStarted) =>
        /\ block_publisher = None
        /\ chain_controller = None
        /\ ~pool.shutdown

\* C8: a start() that follows a stop() leaves a running Journal like the one
\* a first start() leaves: both collaborators running and the executor the
\* ChainController was given accepting its tasks.
C8_RestartLikeFirstStart ==
    (Returned("start") /\ Before("stop")) =>
        /\ block_publisher # None
        /\ chain_controller # None
        /\ publishers[block_publisher].running
        /\ controllers[chain_controller].running
        /\ ~pool.shutdown
        /\ pool.rejected = 0

\* C9: a start() that follows a stop() builds one new BlockPublisher and
\* one new ChainController, and the handles refer to the new pair, which
\* has never been stopped.
C9_RestartBuildsNewPair ==
    (Returned("start") /\ Before("stop")) =>
        /\ Len(publishers) = Len(life.entry.publishers) + 1
        /\ Len(controllers) = Len(life.entry.controllers) + 1
        /\ block_publisher = Len(publishers)
        /\ chain_controller = Len(controllers)
        /\ publishers[block_publisher].stops = 0
        /\ controllers[chain_controller].stops = 0

\* A start(), stop(), start() cycle has completed: two pairs built.
C9_Witness ==
    /\ Returned("start")
    /\ Before("stop")
    /\ Len(publishers) = 2
    /\ Len(controllers) = 2
    /\ block_publisher = 2
    /\ chain_controller = 2

\* A step of stop().
StopStep == stop \/ StopWait \/ StopPublisher \/ StopController

\* C10: no step of stop() changes the batch queue or the block queue, so
\* what is queued when the collaborators are stopped is there, in the same
\* order, for the collaborators the next start() builds.
C10_StopKeepsQueues ==
    [][StopStep => UNCHANGED <<batch_queue, block_queue>>]_vars

\* stop() has stopped a running pair and returned, with two batches and a
\* block still queued.
C10_Witness ==
    /\ Returned("stop")
    /\ life.entry.bp # None
    /\ life.entry.cc # None
    /\ block_publisher = None
    /\ chain_controller = None
    /\ Len(batch_queue) + Len(block_queue) = 2
    /\ batch_queue # <<>>

\* ------------------------------------------------- error handling claims
\* C11: a get_current_root() made while there is no ChainController ends
\* with the NotRunningError outcome, never with a root.
C11_AbsentControllerGivesNotRunningError ==
    root.absent => root.outcome = "NotRunningError"

\* C12: a start() that ends with an exception leaves the Journal not
\* started at all: both handles absent and no collaborator running.
C12_FailedStartLeavesNothing ==
    (life.pc = "idle" /\ last.cur = [op |-> "start", result |-> "raised"]) =>
        /\ block_publisher = None
        /\ chain_controller = None
        /\ ~AnyRunning

\* The notify_batch_pending invocations made for batch b, in order.
NotifiedOf(b) == SelectSeq(notify_log, LAMBDA e : e.batch = b)

\* Caller t has left on_batch_received, by returning or with an exception.
BatchCallOver(t) ==
    callers[t].pc \in {"returned", "raised"} /\ callers[t].i > 0

\* C13: when on_batch_received(b) is over, whether or not an observer
\* raised, every registered observer has been notified of b exactly once.
C13_ObserverFailureIsolated ==
    \A t \in Callers :
        BatchCallOver(t) =>
            \A o \in Range(batch_obs) :
                Len(SelectSeq(NotifiedOf(callers[t].item),
                              LAMBDA e : e.obs = o)) = 1

\* How many times item x occurs in a sequence of items.
Count(x, seq) == Len(SelectSeq(seq, LAMBDA y : y = x))

\* Caller t is past the put() of on_batch_received.
BatchPutDone(t) ==
    callers[t].pc \in {"notify", "returned", "raised"} /\ callers[t].i > 0

\* C14: once on_batch_received(b) has put b, b is among the batches queued
\* or already dequeued exactly once, whatever the observers do, and no
\* notification step changes the batch queue.
C14_ObserverFailureKeepsBatchQueued ==
    /\ [](\A t \in Callers :
            BatchPutDone(t) => Count(callers[t].item, VisibleBatches) = 1)
    /\ [][(\E t \in Callers : NotifyObserver(t))
            => UNCHANGED <<batch_queue, block_queue>>]_vars

\* on_batch_received(b) has ended with an observer's exception; b is in the
\* batch queue behind a batch queued before it.
C14_Witness ==
    \E t \in Callers :
        /\ callers[t].pc = "raised"
        /\ Len(batch_queue) = 2
        /\ batch_queue[2] = callers[t].item

\* ------------------------------------------------- worker pool claims
\* C15: once stop() is past shutdown(wait=True) the executor has nothing
\* queued and nothing running, in every later state, and an executor that
\* has been shut down accepts no further task.
C15_NoTaskSurvivesStop ==
    /\ []((pool.shutdown /\ life.pc # "stop_wait") => PoolDrained(pool))
    /\ [][pool.shutdown => pool'.pending <= pool.pending]_vars

\* stop() has returned after the executor ran one validation task and
\* refused another.
C15_Witness ==
    /\ Returned("stop")
    /\ Len(got.block) = 2
    /\ pool.rejected = 1
    /\ PoolDrained(pool)

\* C16: at most one task submitted to the executor is executing.
C16_OneTaskAtATime == pool.running <= 1

\* One validation task is executing while a second one waits its turn.
C16_Witness == pool.running = 1 /\ pool.pending = 1

\* C17: stop() tears down in one order.  The step that stops the
\* BlockPublisher finds the executor shut down and drained and the
\* ChainController still as stop() found it; the step that stops the
\* ChainController finds the BlockPublisher stopped and its handle gone.
C17_StopOrder ==
    [][(life.pc # "idle" /\ life.op = "stop") =>
         /\ (publishers' # publishers \/ block_publisher' # block_publisher)
               => /\ pool.shutdown
                  /\ PoolDrained(pool)
                  /\ chain_controller = life.entry.cc
                  /\ controllers = life.entry.controllers
         /\ (controllers' # controllers \/ chain_controller' # chain_controller)
               => /\ pool.shutdown
                  /\ PoolDrained(pool)
                  /\ block_publisher = None
                  /\ \A id \in DOMAIN publishers : ~publishers[id].running
      ]_vars

\* stop() has returned after it waited out a pool that had run a task and
\* stopped a running BlockPublisher and a running ChainController.
C17_Witness ==
    /\ Returned("stop")
    /\ ~life.entry.shutdown
    /\ life.entry.bp # None
    /\ life.entry.cc # None
    /\ publishers[life.entry.bp].stops = 1
    /\ controllers[life.entry.cc].stops = 1
    /\ Len(got.block) > pool.rejected

\* C18: the Journal holds the executor and the two queues __init__ built,
\* no other has been built, and every BlockPublisher and ChainController
\* was given those objects.
C18_SharedObjectsBuiltOnce ==
    /\ objs = [batch_queue |-> 1, pool |-> 2, block_queue |-> 3, built |-> 3]
    /\ \A id \in DOMAIN publishers : publishers[id].queue = 1
    /\ \A id \in DOMAIN controllers :
          controllers[id].queue = 3 /\ controllers[id].executor = 2

\* Two pairs of collaborators have been built, batches and blocks have been
\* passed in and dequeued.
C18_Witness ==
    /\ Len(publishers) = 2
    /\ Len(controllers) = 2
    /\ got.batch # <<>>
    /\ got.block # <<>>

\* C19: when a stop() has returned, no collaborator that any start() set
\* running is still running, and both handles are absent.
C19_NothingRunningAfterStop ==
    Returned("stop") =>
        /\ ~AnyRunning
        /\ block_publisher = None
        /\ chain_controller = None

\* start(), start(), stop() have returned: the pair was started twice.
C19_Witness ==
    /\ Returned("stop")
    /\ Before("start")
    /\ Len(publishers) = 1
    /\ publishers[1].starts = 2
    /\ controllers[1].starts = 2

\* C20: between lifecycle calls, and as long as no collaborator constructor
\* has failed, the two handles are both present or both absent.
C20_HandlesPaired ==
    (life.pc = "idle" /\ failures.ctor = 0) =>
        ((block_publisher = None) <=> (chain_controller = None))

\* start() has returned with both handles present; an observer has failed,
\* no collaborator has.
C20_Witness ==
    /\ Returned("start")
    /\ failures = [ctor |-> 0, observer |-> 1]
    /\ block_publisher # None
    /\ chain_controller # None

TypeOK ==
    /\ block_publisher \in 0..Len(publishers)
    /\ chain_controller \in 0..Len(controllers)
    /\ pool.running \in 0..PoolWorkers
    /\ ncalls \in 0..MaxCalls

====
